---- MODULE Spec2Model ----
(***************************************************************************)
(* Adaptive banded Viterbi alignment of events against k-mers              *)
(* (src/nanopolish_raw_loader.inl): the AdaptiveBandedViterbi matrix       *)
(* store, the band placement rule, the fill loop of                        *)
(* generic_banded_simple_hmm and the traceback.                            *)
(*                                                                         *)
(* Scores are floats in the source.  Here a finite score is an integer     *)
(* (log-probabilities scaled by 10 and rounded), and the two special float *)
(* values the program produces, -INFINITY and NaN, are the sentinels       *)
(* NegInf and NaN with IEEE comparison and addition rules (FAdd, FGt, ...).*)
(* Probabilities are counted in twelfths, so that p_stay = 1 - n_kmers /   *)
(* n_events is exact for the sizes explored.                               *)
(***************************************************************************)
EXTENDS Integers, Sequences, FiniteSets, TLC

\* ---------------------------------------------------------------- bounds
MaxEvents == 2
MaxKmers == 2
MaxBandwidth == 6
\* sizes of the wider exploration used for the bandwidth comparison
WideEvents == 3
WideKmers == 3

\* configuration values explored: probabilities in twelfths, in (0,1)
PSkipVals == {1, 3, 10}
PTrimVals == {1, 6}
\* values the emission scorer returns (finite log-probabilities)
EmissionVals == {0, -400}
\* ------------------------------------------------------- float sentinels
NegInf == -1000000
NaN == 1000000

\* scores handed to set3 when set3 is explored on its own
Set3Scores == {NegInf, NaN, -14, -7, 0}

FAdd(a, b) ==
    IF a = NaN \/ b = NaN THEN NaN
    ELSE IF a = NegInf \/ b = NegInf THEN NegInf
    ELSE a + b

\* integer count n (n >= 0) times a float
FMul(n, a) ==
    IF a = NaN THEN NaN
    ELSE IF a = NegInf THEN (IF n = 0 THEN NaN ELSE NegInf)
    ELSE n * a

FGt(a, b) == a # NaN /\ b # NaN /\ a > b
FLt(a, b) == a # NaN /\ b # NaN /\ a < b
FEq(a, b) == a # NaN /\ b # NaN /\ a = b

\* round(10 * ln(k/12)) for k = 1..12
LogTable == <<-25, -18, -14, -11, -9, -7, -5, -4, -3, -2, -1, 0>>

\* log of a probability given in twelfths: NaN below zero, -inf at zero
log12(k) ==
    IF k = NaN THEN NaN
    ELSE IF k < 0 THEN NaN
    ELSE IF k = 0 THEN NegInf
    ELSE IF k >= 12 THEN 0
    ELSE LogTable[k]

\* ------------------------------------------------------------ move tags
SHMM_FROM_D == 0
SHMM_FROM_U == 1
SHMM_FROM_L == 2
SHMM_FROM_INVALID == 3

VARIABLES
    n_events,      \* read.events[strand_idx].size()
    n_kmers,       \* sequence.size() - k + 1
    parameters,    \* AdaBandedParameters: bandwidth, p_skip, p_trim
    lp_emission,   \* log_probability_match_r9 as a table over (event, kmer)
    hmm_result,    \* the AdaptiveBandedViterbi object
    lp,            \* lp_skip, lp_stay, lp_step, lp_trim of the driver
    band_idx,      \* outer loop counter of the fill
    offset,        \* inner loop counter of the fill
    max_offset,    \* upper end of the inner loop
    scores,        \* score_d, score_u, score_l last handed to set3
    filled,        \* history: the buffer indexes set3 has written
    bt,            \* locals of backtrack()
    out,           \* the vector backtrack() builds
    pc

vars == <<n_events, n_kmers, parameters, lp_emission, hmm_result, lp, band_idx,
          offset, max_offset, scores, filled, bt, out, pc>>

\* ------------------------------------------------- AdaptiveBandedViterbi

\* the object after its constructor
Constructed ==
    [ band_scores |-> <<>>, trace |-> <<>>, band_origins |-> <<>>,
      parameters |-> [bandwidth |-> 0, p_skip |-> 0, p_trim |-> 0],
      n_kmers |-> 0, n_events |-> 0, n_bands |-> 0, n_fills |-> 0,
      bandwidth |-> 0 ]

get_offset_for_event_in_band(h, b, event_idx) ==
    h.band_origins[b].event_idx - event_idx

get_offset_for_kmer_in_band(h, b, kmer_idx) ==
    kmer_idx - h.band_origins[b].kmer_idx

get_event_at_band_offset(h, b, o) ==
    h.band_origins[b].event_idx - o

get_kmer_at_band_offset(h, b, o) ==
    h.band_origins[b].kmer_idx + o

event_kmer_to_band(event_idx, kmer_idx) ==
    (event_idx + 1) + (kmer_idx + 1)

is_offset_valid(h, band_offset) ==
    band_offset >= 0 /\ band_offset < h.bandwidth

\* defective variant: an out-of-band read gives 0, as get_trace does, not -infinity
get_zero_outside(h, b, band_offset) ==
    IF is_offset_valid(h, band_offset)
    THEN h.band_scores[b * h.bandwidth + band_offset]
    ELSE 0

get(h, b, band_offset) ==
    IF is_offset_valid(h, band_offset)
    THEN h.band_scores[b * h.bandwidth + band_offset]
    ELSE NegInf

get_trace(h, b, band_offset) ==
    IF is_offset_valid(h, band_offset)
    THEN h.trace[b * h.bandwidth + band_offset]
    ELSE 0

set(h, b, band_offset, value, from) ==
    LET idx == b * h.bandwidth + band_offset
    IN  [h EXCEPT !.band_scores[idx] = value, !.trace[idx] = from]

\* defective variant: a later score replaces the move only when strictly greater
set3_from_earlier(score_d, score_u, score_l) ==
    LET max1 == IF FGt(score_u, score_d) THEN score_u ELSE score_d
        from1 == IF FGt(score_u, score_d) THEN SHMM_FROM_U ELSE SHMM_FROM_D
    IN  IF FGt(score_l, max1) THEN SHMM_FROM_L ELSE from1

\* the move set3 records for three candidate scores
set3_from(score_d, score_u, score_l) ==
    LET max1 == IF FGt(score_u, score_d) THEN score_u ELSE score_d
        from1 == IF FEq(max1, score_u) THEN SHMM_FROM_U ELSE SHMM_FROM_D
        max2 == IF FGt(score_l, max1) THEN score_l ELSE max1
    IN  IF FEq(max2, score_l) THEN SHMM_FROM_L ELSE from1

\* the score set3 stores for three candidate scores
set3_max(score_d, score_u, score_l) ==
    LET max1 == IF FGt(score_u, score_d) THEN score_u ELSE score_d
    IN  IF FGt(score_l, max1) THEN score_l ELSE max1

set3(h, b, band_offset, score_d, score_u, score_l) ==
    LET h1 == set(h, b, band_offset, set3_max(score_d, score_u, score_l),
                  set3_from(score_d, score_u, score_l))
    IN  [h1 EXCEPT !.n_fills = @ + 1]

move_band_down(curr_origin) ==
    [event_idx |-> curr_origin.event_idx + 1, kmer_idx |-> curr_origin.kmer_idx]

move_band_right(curr_origin) ==
    [event_idx |-> curr_origin.event_idx, kmer_idx |-> curr_origin.kmer_idx + 1]

\* the tag initialize() writes into every cell
initial_trace == 0

\* defective variant: the first origin one k-mer to the right
first_band_origin_shifted(bandwidth) ==
    LET half_bandwidth == bandwidth \div 2
    IN  [event_idx |-> half_bandwidth - 1, kmer_idx |-> 0 - half_bandwidth]

\* band_origins[0] as initialize() places it
first_band_origin(bandwidth) ==
    LET half_bandwidth == bandwidth \div 2
    IN  [event_idx |-> half_bandwidth - 1, kmer_idx |-> -1 - half_bandwidth]

initialize(h, ne, nk, params) ==
    LET bw == params.bandwidth
        nb == (ne + 1) + (nk + 1)
        o0 == first_band_origin(bw)
    IN  [h EXCEPT
            !.parameters = params,
            !.n_events = ne,
            !.n_kmers = nk,
            !.bandwidth = bw,
            !.n_bands = nb,
            !.band_scores = [i \in 0 .. (nb * bw - 1) |-> NegInf],
            !.trace = [i \in 0 .. (nb * bw - 1) |-> initial_trace],
            !.band_origins =
                [i \in 0 .. (nb - 1) |->
                    IF i = 0 THEN o0
                    ELSE IF i = 1 THEN move_band_down(o0)
                    ELSE [event_idx |-> 0, kmer_idx |-> 0]]]

\* defective variant: the parity of the alternation flipped
band_moves_right_even(h, b) ==
    LET ll == get(h, b - 1, 0)
        ur == get(h, b - 1, h.bandwidth - 1)
        ll_ob == FEq(ll, NegInf)
        ur_ob == FEq(ur, NegInf)
    IN  IF ll_ob /\ ur_ob THEN b % 2 = 0 ELSE FLt(ll, ur)

\* the direction determine_band_origin chooses for band b: TRUE is right
band_moves_right(h, b) ==
    LET ll == get(h, b - 1, 0)
        ur == get(h, b - 1, h.bandwidth - 1)
        ll_ob == FEq(ll, NegInf)
        ur_ob == FEq(ur, NegInf)
    IN  IF ll_ob /\ ur_ob THEN b % 2 = 1 ELSE FLt(ll, ur)

determine_band_origin(h, b) ==
    IF band_moves_right(h, b)
    THEN [h EXCEPT !.band_origins[b] = move_band_right(h.band_origins[b - 1])]
    ELSE [h EXCEPT !.band_origins[b] = move_band_down(h.band_origins[b - 1])]

Max2(a, b) == IF a > b THEN a ELSE b
Min2(a, b) == IF a < b THEN a ELSE b

\* defective variant: the lower end of the range ignores the k-mer bound
range_min_offset_no_kmer(h, b) ==
    LET event_min_offset == get_offset_for_event_in_band(h, b, h.n_events - 1)
    IN  Max2(event_min_offset, 0)

range_min_offset(h, b) ==
    LET kmer_min_offset == get_offset_for_kmer_in_band(h, b, 0)
        event_min_offset == get_offset_for_event_in_band(h, b, h.n_events - 1)
    IN  Max2(Max2(kmer_min_offset, event_min_offset), 0)

range_max_offset(h, b) ==
    LET kmer_max_offset == get_offset_for_kmer_in_band(h, b, h.n_kmers)
        event_max_offset == get_offset_for_event_in_band(h, b, -1)
    IN  Min2(Min2(kmer_max_offset, event_max_offset), h.bandwidth)

\* ------------------------------------------- generic_banded_simple_hmm

\* p_stay = 1 - 1 / (n_events / n_kmers) in twelfths; NaN when the
\* division yields a value whose log is NaN (n_events = 0)
p_stay12(ne, nk) ==
    IF ne = 0 THEN NaN
    ELSE 12 - ((12 * nk) \div ne)

transition_penalties(ne, nk, params) ==
    LET stay == p_stay12(ne, nk)
        lp_stay == log12(stay)
    IN  [ lp_skip |-> log12(params.p_skip),
          lp_stay |-> lp_stay,
          lp_step |-> IF lp_stay = NaN THEN NaN
                      ELSE log12(12 - params.p_skip - stay),
          lp_trim |-> log12(params.p_trim) ]

\* band 0: score zero in the central cell; band 1: first event trimmed
start_cell_offset(h) == get_offset_for_kmer_in_band(h, 0, -1)
first_trim_offset(h) == get_offset_for_event_in_band(h, 1, 0)

seed_asserts(h) ==
    /\ is_offset_valid(h, start_cell_offset(h))
    /\ get_offset_for_event_in_band(h, 0, -1) = start_cell_offset(h)
    /\ get_kmer_at_band_offset(h, 1, first_trim_offset(h)) = -1
    /\ is_offset_valid(h, first_trim_offset(h))

seed_bands(h, lps) ==
    set(set(h, 0, start_cell_offset(h), 0, 0),
        1, first_trim_offset(h), lps.lp_trim, SHMM_FROM_U)

\* head of one iteration of the band loop: place the band and fill the
\* trim cell if it is inside the band
begin_band(h, b, lps) ==
    LET h1 == determine_band_origin(h, b)
        trim_offset == get_offset_for_kmer_in_band(h1, b, -1)
        event_idx == get_event_at_band_offset(h1, b, trim_offset)
    IN  IF is_offset_valid(h1, trim_offset)
        THEN IF event_idx >= 0 /\ event_idx < h1.n_events
             THEN set(h1, b, trim_offset, FMul(event_idx + 1, lps.lp_trim), SHMM_FROM_U)
             ELSE set(h1, b, trim_offset, NegInf, 0)
        ELSE h1

\* defective variant: the left move always costs a skip, also into the first k-mer
candidate_scores_always_skip(h, b, o, lps, emission) ==
    LET event_idx == get_event_at_band_offset(h, b, o)
        kmer_idx == get_kmer_at_band_offset(h, b, o)
        offset_up == get_offset_for_event_in_band(h, b - 1, event_idx - 1)
        offset_left == get_offset_for_kmer_in_band(h, b - 1, kmer_idx - 1)
        offset_diag == get_offset_for_kmer_in_band(h, b - 2, kmer_idx - 1)
        up == get(h, b - 1, offset_up)
        left == get(h, b - 1, offset_left)
        diag == get(h, b - 2, offset_diag)
    IN  [ score_d |-> FAdd(FAdd(diag, lps.lp_step), emission),
          score_u |-> FAdd(FAdd(up, lps.lp_stay), emission),
          score_l |-> FAdd(left, lps.lp_skip) ]

\* the three candidate scores of the cell at (b, o), given its emission
candidate_scores(h, b, o, lps, emission) ==
    LET event_idx == get_event_at_band_offset(h, b, o)
        kmer_idx == get_kmer_at_band_offset(h, b, o)
        offset_up == get_offset_for_event_in_band(h, b - 1, event_idx - 1)
        offset_left == get_offset_for_kmer_in_band(h, b - 1, kmer_idx - 1)
        offset_diag == get_offset_for_kmer_in_band(h, b - 2, kmer_idx - 1)
        up == get(h, b - 1, offset_up)
        left == get(h, b - 1, offset_left)
        diag == get(h, b - 2, offset_diag)
    IN  [ score_d |-> FAdd(FAdd(diag, lps.lp_step), emission),
          score_u |-> FAdd(FAdd(up, lps.lp_stay), emission),
          score_l |-> FAdd(left, IF kmer_idx > 0 THEN lps.lp_skip
                                  ELSE FAdd(lps.lp_step, emission)) ]

fill_cell(h, b, o, lps, emission) ==
    LET s == candidate_scores(h, b, o, lps, emission)
    IN  set3(h, b, o, s.score_d, s.score_u, s.score_l)

\* ------------------------------------------------------------ backtrack

RECURSIVE scan_terminal(_, _, _)
\* the loop that finds the best score between an event and the last k-mer;
\* acc is [max_score, curr_event_idx]
scan_terminal(h, event_idx, acc) ==
    IF event_idx >= h.n_events THEN acc
    ELSE
        LET curr_kmer_idx == h.n_kmers - 1
            b == event_kmer_to_band(event_idx, curr_kmer_idx)
            o == get_offset_for_event_in_band(h, b, event_idx)
            lp_trim == log12(h.parameters.p_trim)
            s == FAdd(get(h, b, o), FMul(h.n_events - event_idx, lp_trim))
        IN  IF is_offset_valid(h, o) /\ FGt(s, acc.max_score)
            THEN scan_terminal(h, event_idx + 1,
                               [max_score |-> s, curr_event_idx |-> event_idx])
            ELSE scan_terminal(h, event_idx + 1, acc)

\* defective variant: the scan keeps the score but not the event it was found at
backtrack_start_first_event(h) ==
    LET best == scan_terminal(h, 0, [max_score |-> NegInf, curr_event_idx |-> 0])
    IN  [ max_score |-> best.max_score,
          curr_event_idx |-> 0,
          curr_kmer_idx |-> h.n_kmers - 1,
          is_skip |-> FALSE ]

backtrack_start(h) ==
    LET best == scan_terminal(h, 0, [max_score |-> NegInf, curr_event_idx |-> 0])
    IN  [ max_score |-> best.max_score,
          curr_event_idx |-> best.curr_event_idx,
          curr_kmer_idx |-> h.n_kmers - 1,
          is_skip |-> FALSE ]

walk_assert(h, w) ==
    LET b == event_kmer_to_band(w.curr_event_idx, w.curr_kmer_idx)
    IN  get_offset_for_kmer_in_band(h, b, w.curr_kmer_idx)
            = get_offset_for_event_in_band(h, b, w.curr_event_idx)

\* defective variant: a left move does not mark the next cell as skipped
walk_move_no_skip(h, w) ==
    LET b == event_kmer_to_band(w.curr_event_idx, w.curr_kmer_idx)
        o == get_offset_for_event_in_band(h, b, w.curr_event_idx)
        from == get_trace(h, b, o)
    IN  IF from = SHMM_FROM_D
        THEN [w EXCEPT !.curr_kmer_idx = @ - 1, !.curr_event_idx = @ - 1,
                       !.is_skip = FALSE]
        ELSE IF from = SHMM_FROM_U
        THEN [w EXCEPT !.curr_event_idx = @ - 1, !.is_skip = FALSE]
        ELSE [w EXCEPT !.curr_kmer_idx = @ - 1, !.is_skip = FALSE]

\* one iteration of the backward walk, after the emit
walk_move(h, w) ==
    LET b == event_kmer_to_band(w.curr_event_idx, w.curr_kmer_idx)
        o == get_offset_for_event_in_band(h, b, w.curr_event_idx)
        from == get_trace(h, b, o)
    IN  IF from = SHMM_FROM_D
        THEN [w EXCEPT !.curr_kmer_idx = @ - 1, !.curr_event_idx = @ - 1,
                       !.is_skip = FALSE]
        ELSE IF from = SHMM_FROM_U
        THEN [w EXCEPT !.curr_event_idx = @ - 1, !.is_skip = FALSE]
        ELSE [w EXCEPT !.curr_kmer_idx = @ - 1, !.is_skip = TRUE]

walk_emit(w, o) ==
    IF ~w.is_skip
    THEN Append(o, [kmer_idx |-> w.curr_kmer_idx, event_idx |-> w.curr_event_idx])
    ELSE o

Reverse(s) == [i \in 1 .. Len(s) |-> s[Len(s) + 1 - i]]

\* ------------------------------------------------- the whole alignment

RECURSIVE fill_offsets(_, _, _, _, _, _)
\* the inner loop of the fill, from offset o to max (the loop never leaves
\* the emission table, see C10; a read outside it is given as NaN)
fill_offsets(h, b, o, max, lps, emissions) ==
    IF o >= max THEN h
    ELSE
        LET cell == <<get_event_at_band_offset(h, b, o), get_kmer_at_band_offset(h, b, o)>>
            emission == IF cell \in DOMAIN emissions THEN emissions[cell] ELSE NaN
        IN  fill_offsets(fill_cell(h, b, o, lps, emission), b, o + 1, max, lps, emissions)

RECURSIVE fill_bands(_, _, _, _)
\* the band loop of the fill, from band b on
fill_bands(h, b, lps, emissions) ==
    IF b >= h.n_bands THEN h
    ELSE
        LET h1 == begin_band(h, b, lps)
            h2 == fill_offsets(h1, b, range_min_offset(h1, b), range_max_offset(h1, b),
                               lps, emissions)
        IN  fill_bands(h2, b + 1, lps, emissions)

\* generic_banded_simple_hmm as one function of its inputs: the filled object
generic_banded_simple_hmm(ne, nk, params, emissions) ==
    LET lps == transition_penalties(ne, nk, params)
        h0 == initialize(Constructed, ne, nk, params)
    IN  fill_bands(seed_bands(h0, lps), 2, lps, emissions)


\* ---------------------------------------------------------------- state

NoScores == [score_d |-> 0, score_u |-> 0, score_l |-> 0]
NoBacktrack == [max_score |-> NegInf, curr_event_idx |-> 0, curr_kmer_idx |-> 0,
                is_skip |-> FALSE]
NoPenalties == [lp_skip |-> 0, lp_stay |-> 0, lp_step |-> 0, lp_trim |-> 0]

InitOver(event_counts, kmer_counts) ==
    /\ n_events \in event_counts
    /\ n_kmers \in kmer_counts
    /\ parameters \in [bandwidth : 1 .. MaxBandwidth, p_skip : PSkipVals,
                       p_trim : PTrimVals]
    /\ lp_emission \in [(0 .. (n_events - 1)) \X (0 .. (n_kmers - 1)) -> EmissionVals]
    /\ hmm_result = Constructed
    /\ lp = NoPenalties
    /\ band_idx = 0
    /\ offset = 0
    /\ max_offset = 0
    /\ scores = NoScores
    /\ filled = {}
    /\ bt = NoBacktrack
    /\ out = <<>>
    /\ pc = "start"

Init == InitOver(0 .. MaxEvents, 0 .. MaxKmers)

InitWide == InitOver(1 .. WideEvents, 1 .. WideKmers)

\* lines 302-317: transition penalties and hmm_result.initialize
Initialize ==
    /\ pc = "start"
    /\ lp' = transition_penalties(n_events, n_kmers, parameters)
    /\ hmm_result' = initialize(hmm_result, n_events, n_kmers, parameters)
    /\ pc' = "seed"
    /\ UNCHANGED <<n_events, n_kmers, parameters, lp_emission, band_idx, offset,
                   max_offset, scores, filled, bt, out>>

\* lines 319-329: the two seed cells, behind their asserts
Seed ==
    /\ pc = "seed"
    /\ IF seed_asserts(hmm_result)
       THEN /\ hmm_result' = seed_bands(hmm_result, lp)
            /\ band_idx' = 2
            /\ pc' = "band"
       ELSE /\ pc' = "assert_failed"
            /\ UNCHANGED <<hmm_result, band_idx>>
    /\ UNCHANGED <<n_events, n_kmers, parameters, lp_emission, lp, offset,
                   max_offset, scores, filled, bt, out>>

\* lines 336-353: band placement, trim cell, offset range
BeginBand ==
    /\ pc = "band"
    /\ band_idx < hmm_result.n_bands
    /\ LET h == begin_band(hmm_result, band_idx, lp)
       IN  /\ hmm_result' = h
           /\ offset' = range_min_offset(h, band_idx)
           /\ max_offset' = range_max_offset(h, band_idx)
    /\ pc' = "fill"
    /\ UNCHANGED <<n_events, n_kmers, parameters, lp_emission, lp, band_idx,
                   scores, filled, bt, out>>

\* lines 355-382: one cell of the band.  A read of the emission outside the
\* tables is an out-of-range read: any value.
FillCell ==
    /\ pc = "fill"
    /\ offset < max_offset
    /\ LET event_idx == get_event_at_band_offset(hmm_result, band_idx, offset)
           kmer_idx == get_kmer_at_band_offset(hmm_result, band_idx, offset)
       IN  \E emission \in (IF <<event_idx, kmer_idx>> \in DOMAIN lp_emission
                            THEN {lp_emission[<<event_idx, kmer_idx>>]}
                            ELSE EmissionVals) :
             /\ scores' = candidate_scores(hmm_result, band_idx, offset, lp, emission)
             /\ hmm_result' = fill_cell(hmm_result, band_idx, offset, lp, emission)
    /\ filled' = filled \cup {band_idx * hmm_result.bandwidth + offset}
    /\ offset' = offset + 1
    /\ UNCHANGED <<n_events, n_kmers, parameters, lp_emission, lp, band_idx,
                   max_offset, bt, out, pc>>

\* end of the inner loop
EndBand ==
    /\ pc = "fill"
    /\ offset >= max_offset
    /\ band_idx' = band_idx + 1
    /\ pc' = "band"
    /\ UNCHANGED <<n_events, n_kmers, parameters, lp_emission, hmm_result, lp,
                   offset, max_offset, scores, filled, bt, out>>

\* lines 209-233: end of the fill; backtrack() finds its start
BacktrackScan ==
    /\ pc = "band"
    /\ band_idx >= hmm_result.n_bands
    /\ bt' = backtrack_start(hmm_result)
    /\ pc' = "walk"
    /\ UNCHANGED <<n_events, n_kmers, parameters, lp_emission, hmm_result, lp,
                   band_idx, offset, max_offset, scores, filled, out>>

\* lines 235-261: one iteration of the backward walk
WalkStep ==
    /\ pc = "walk"
    /\ bt.curr_kmer_idx >= 0 /\ bt.curr_event_idx >= 0
    /\ out' = walk_emit(bt, out)
    /\ IF walk_assert(hmm_result, bt)
       THEN bt' = walk_move(hmm_result, bt) /\ pc' = pc
       ELSE bt' = bt /\ pc' = "assert_failed"
    /\ UNCHANGED <<n_events, n_kmers, parameters, lp_emission, hmm_result, lp,
                   band_idx, offset, max_offset, scores, filled>>

\* lines 262-263: reverse and return
WalkEnd ==
    /\ pc = "walk"
    /\ ~(bt.curr_kmer_idx >= 0 /\ bt.curr_event_idx >= 0)
    /\ out' = Reverse(out)
    /\ pc' = "done"
    /\ UNCHANGED <<n_events, n_kmers, parameters, lp_emission, hmm_result, lp,
                   band_idx, offset, max_offset, scores, filled, bt>>

Next ==
    \/ Initialize
    \/ Seed
    \/ BeginBand
    \/ FillCell
    \/ EndBand
    \/ BacktrackScan
    \/ WalkStep
    \/ WalkEnd

Spec == Init /\ [][Next]_vars

\* the same program over the wider sizes
SpecWide == InitWide /\ [][Next]_vars

\* ------------------------------------------------ set3 on its own
\* set3 applied once to an arbitrary triple of scores, on a freshly
\* initialized one-event, one-k-mer matrix
InitSet3 ==
    /\ n_events = 1
    /\ n_kmers = 1
    /\ parameters \in [bandwidth : 1 .. 2, p_skip : {1}, p_trim : {1}]
    /\ lp_emission = [c \in {<<0, 0>>} |-> 0]
    /\ hmm_result = initialize(Constructed, 1, 1, parameters)
    /\ lp = transition_penalties(1, 1, parameters)
    /\ band_idx = 2
    /\ offset \in 0 .. (parameters.bandwidth - 1)
    /\ max_offset = parameters.bandwidth
    /\ scores \in [score_d : Set3Scores, score_u : Set3Scores, score_l : Set3Scores]
    /\ filled = {}
    /\ bt = NoBacktrack
    /\ out = <<>>
    /\ pc = "set3"

CallSet3 ==
    /\ pc = "set3"
    /\ hmm_result' = set3(hmm_result, band_idx, offset, scores.score_d,
                          scores.score_u, scores.score_l)
    /\ filled' = filled \cup {band_idx * hmm_result.bandwidth + offset}
    /\ pc' = "set3_done"
    /\ UNCHANGED <<n_events, n_kmers, parameters, lp_emission, lp, band_idx,
                   offset, max_offset, scores, bt, out>>

NextSet3 == CallSet3

SpecSet3 == InitSet3 /\ [][NextSet3]_vars

\* ================================================================ claims

\* the cell set3 was last applied to, in the stand-alone check
Set3Cell == band_idx * hmm_result.bandwidth + offset

Max3(a, b, c) == Max2(Max2(a, b), c)

NoNaN(t) == t.score_d # NaN /\ t.score_u # NaN /\ t.score_l # NaN

\* C1 as stated: set3 stores the maximum of the three scores and a tie goes
\* to the earlier-compared source (diagonal over up over left); in
\* particular score_d == score_u >= score_l records diagonal, and so do
\* three -infinity scores.
C1_TieGoesToEarlier ==
    (pc = "set3_done" /\ NoNaN(scores)) =>
        /\ hmm_result.band_scores[Set3Cell]
              = Max3(scores.score_d, scores.score_u, scores.score_l)
        /\ hmm_result.trace[Set3Cell] =
              IF scores.score_d >= scores.score_u /\ scores.score_d >= scores.score_l
              THEN SHMM_FROM_D
              ELSE IF scores.score_u >= scores.score_l THEN SHMM_FROM_U
              ELSE SHMM_FROM_L

\* C1 amended: set3 stores the maximum of the three scores and a tie goes
\* to the later-compared source: left whenever score_l equals the maximum,
\* else up whenever score_u equals it, else diagonal (scores that are not NaN).
C1_TieGoesToLater ==
    (pc = "set3_done" /\ NoNaN(scores)) =>
        /\ hmm_result.band_scores[Set3Cell]
              = Max3(scores.score_d, scores.score_u, scores.score_l)
        /\ hmm_result.trace[Set3Cell] =
              IF scores.score_l >= scores.score_d /\ scores.score_l >= scores.score_u
              THEN SHMM_FROM_L
              ELSE IF scores.score_u >= scores.score_d THEN SHMM_FROM_U
              ELSE SHMM_FROM_D

\* set3 has been applied to score_d == score_u > score_l and recorded up
C1_Witness ==
    /\ pc = "set3_done"
    /\ NoNaN(scores)
    /\ scores.score_d = scores.score_u
    /\ scores.score_u > scores.score_l
    /\ scores.score_d # NegInf
    /\ hmm_result.trace[Set3Cell] = SHMM_FROM_U

\* C2: the sequence backtrack() returns is strictly increasing in event_idx
\* and non-decreasing in kmer_idx, with k-mer indexes inside [0, n_kmers-1].
C2_AlignmentOrdered ==
    (pc = "done" /\ n_events >= 1 /\ n_kmers >= 1) =>
        /\ \A i \in 1 .. (Len(out) - 1) :
              /\ out[i].event_idx < out[i + 1].event_idx
              /\ out[i].kmer_idx <= out[i + 1].kmer_idx
        /\ Len(out) >= 1 =>
              /\ out[1].kmer_idx >= 0
              /\ out[Len(out)].kmer_idx <= n_kmers - 1

\* an alignment of several pairs, advancing in both indexes, was returned
C2_Witness ==
    /\ pc = "done"
    /\ n_events >= 2 /\ n_kmers >= 2
    /\ Len(out) >= 2
    /\ out[1].kmer_idx < out[2].kmer_idx

\* C3: the alignment is empty when n_events == 0 or n_kmers == 0.
C3_EmptyOnZeroLength ==
    (pc = "done" /\ ((n_events = 0 /\ n_kmers >= 1) \/ (n_kmers = 0 /\ n_events >= 1)))
        => out = <<>>

\* ------------------------------------------------ unbanded reference
\* The full dynamic program over the grid event in [-1, n_events-1],
\* kmer in [-1, n_kmers-1], cell by cell in row-major order.
RefWidth == n_kmers + 1
RefCount == (n_events + 1) * (n_kmers + 1)
RefCellAt(i) == <<(i \div RefWidth) - 1, (i % RefWidth) - 1>>

RefValue(M, c) ==
    LET e == c[1]
        k == c[2]
    IN  IF e = -1 /\ k = -1 THEN [score |-> 0, from |-> 0]
        ELSE IF k = -1 THEN [score |-> FMul(e + 1, lp.lp_trim), from |-> SHMM_FROM_U]
        ELSE IF e = -1 THEN [score |-> NegInf, from |-> 0]
        ELSE
            LET em == lp_emission[<<e, k>>]
                d == FAdd(FAdd(M[<<e - 1, k - 1>>].score, lp.lp_step), em)
                u == FAdd(FAdd(M[<<e - 1, k>>].score, lp.lp_stay), em)
                l == FAdd(M[<<e, k - 1>>].score,
                          IF k > 0 THEN lp.lp_skip ELSE FAdd(lp.lp_step, em))
            IN  [score |-> set3_max(d, u, l), from |-> set3_from(d, u, l)]

RECURSIVE RefFrom(_, _)
RefFrom(i, M) ==
    IF i >= RefCount THEN M
    ELSE RefFrom(i + 1, M @@ (RefCellAt(i) :> RefValue(M, RefCellAt(i))))

RefMatrix == RefFrom(0, <<>>)

RECURSIVE RefScan(_, _, _)
RefScan(M, e, acc) ==
    IF e >= n_events THEN acc
    ELSE
        LET s == FAdd(M[<<e, n_kmers - 1>>].score, FMul(n_events - e, lp.lp_trim))
        IN  IF FGt(s, acc.max_score)
            THEN RefScan(M, e + 1, [max_score |-> s, curr_event_idx |-> e])
            ELSE RefScan(M, e + 1, acc)

RECURSIVE RefWalk(_, _, _, _, _)
RefWalk(M, e, k, skip, acc) ==
    IF ~(k >= 0 /\ e >= 0) THEN Reverse(acc)
    ELSE
        LET acc1 == IF skip THEN acc
                    ELSE Append(acc, [kmer_idx |-> k, event_idx |-> e])
            from == M[<<e, k>>].from
        IN  IF from = SHMM_FROM_D THEN RefWalk(M, e - 1, k - 1, FALSE, acc1)
            ELSE IF from = SHMM_FROM_U THEN RefWalk(M, e - 1, k, FALSE, acc1)
            ELSE RefWalk(M, e, k - 1, TRUE, acc1)

RefBest(M) == RefScan(M, 0, [max_score |-> NegInf, curr_event_idx |-> 0])

RefAlignment(M) == RefWalk(M, RefBest(M).curr_event_idx, n_kmers - 1, FALSE, <<>>)

\* every grid cell, the seed row and column included, is inside its band
FullCoverage(h) ==
    \A e \in -1 .. (h.n_events - 1) : \A k \in -1 .. (h.n_kmers - 1) :
        LET o == h.band_origins[e + k + 2].event_idx - e
        IN  o >= 0 /\ o < h.bandwidth

\* C4: when the bands cover the whole grid, the banded fill and backtrack
\* give the best termination score and the alignment of the unbanded
\* dynamic program.
C4_MatchesUnbanded ==
    (pc = "done" /\ n_events >= 1 /\ n_kmers >= 1 /\ FullCoverage(hmm_result)) =>
        LET M == RefMatrix
        IN  /\ bt.max_score = RefBest(M).max_score
            /\ out = RefAlignment(M)

\* a full-coverage alignment of a 2 x 2 or larger grid with a finite score
C4_Witness ==
    /\ pc = "done"
    /\ n_events >= 2 /\ n_kmers >= 2
    /\ FullCoverage(hmm_result)
    /\ bt.max_score # NegInf
    /\ Len(out) >= 2

\* the best termination score backtrack() finds for the same input under
\* another bandwidth
BestScoreAt(bw) ==
    backtrack_start(generic_banded_simple_hmm(n_events, n_kmers,
        [parameters EXCEPT !.bandwidth = bw], lp_emission)).max_score

\* C5 as stated: for bandwidths b1 < b2 the best termination score with b2
\* is at least the one with b1.
C5_WiderNeverWorse ==
    (pc = "done") =>
        \A b2 \in (parameters.bandwidth + 1) .. MaxBandwidth :
            ~FLt(BestScoreAt(b2), bt.max_score)

\* C5 amended: the best termination score with a bandwidth b2 whose bands
\* cover the whole grid is at least the one with any smaller bandwidth b1.
C5_CoveringNeverWorse ==
    (pc = "done" /\ FullCoverage(hmm_result)) =>
        \A b1 \in 1 .. (parameters.bandwidth - 1) :
            ~FGt(BestScoreAt(b1), bt.max_score)

\* a covering bandwidth has strictly improved on a narrower one
C5_Witness ==
    /\ pc = "done"
    /\ n_events >= 3 /\ n_kmers >= 3
    /\ FullCoverage(hmm_result)
    /\ \E b1 \in 1 .. (parameters.bandwidth - 1) :
          /\ BestScoreAt(b1) # NegInf
          /\ FLt(BestScoreAt(b1), bt.max_score)

\* the origins of bands 0 .. BandsSet-1 have been set
BandsSet ==
    IF pc = "start" THEN 0
    ELSE IF pc = "seed" THEN 2
    ELSE IF pc = "band" THEN band_idx
    ELSE IF pc = "fill" THEN band_idx + 1
    ELSE hmm_result.n_bands

\* C6: for every band placed so far and every offset, event + kmer + 2 is
\* the band, the offset round trip is the identity, the event-derived and
\* kmer-derived offsets of any cell of the band agree, and no consistency
\* assert fails.
C6_CoordinatesConsistent ==
    /\ pc # "assert_failed"
    /\ \A b \in 0 .. (BandsSet - 1) :
          /\ \A o \in 0 .. (hmm_result.bandwidth - 1) :
                LET e == get_event_at_band_offset(hmm_result, b, o)
                    k == get_kmer_at_band_offset(hmm_result, b, o)
                IN  /\ e + k + 2 = b
                    /\ get_offset_for_event_in_band(hmm_result, b, e) = o
                    /\ get_offset_for_kmer_in_band(hmm_result, b, k) = o
          /\ \A e \in -1 .. n_events : \A k \in -1 .. n_kmers :
                event_kmer_to_band(e, k) = b =>
                    get_offset_for_event_in_band(hmm_result, b, e)
                        = get_offset_for_kmer_in_band(hmm_result, b, k)

\* a finished alignment whose bands moved both down and right
C6_Witness ==
    /\ pc = "done"
    /\ n_events >= 2 /\ n_kmers >= 2
    /\ \E b \in 2 .. (hmm_result.n_bands - 1) :
          hmm_result.band_origins[b].kmer_idx = hmm_result.band_origins[b - 1].kmer_idx + 1
    /\ \E b \in 2 .. (hmm_result.n_bands - 1) :
          hmm_result.band_origins[b].event_idx = hmm_result.band_origins[b - 1].event_idx + 1

\* C7: after initialize() every cell holds -infinity and a tag that is none
\* of the three move tags.
C7_InitializedUnset ==
    pc = "seed" =>
        \A i \in DOMAIN hmm_result.band_scores :
            /\ hmm_result.band_scores[i] = NegInf
            /\ hmm_result.trace[i] \notin {SHMM_FROM_D, SHMM_FROM_U, SHMM_FROM_L}

\* the scorer gives 0 on the diagonal and the large penalty elsewhere
PerfectMatch ==
    /\ n_events = n_kmers
    /\ n_events >= 1
    /\ \A c \in DOMAIN lp_emission :
          lp_emission[c] = IF c[1] = c[2] THEN 0 ELSE -400

Diagonal(n) == [i \in 1 .. n |-> [kmer_idx |-> i - 1, event_idx |-> i - 1]]

\* every cell (i, i), from the start cell on, is inside its band
DiagonalInBand(h) ==
    \A i \in -1 .. (h.n_events - 1) :
        LET o == h.band_origins[2 * i + 2].event_idx - i
        IN  o >= 0 /\ o < h.bandwidth

\* C8 as stated: with n_events == n_kmers and a perfect-match scorer the
\* alignment is the diagonal, whatever the bandwidth.
C8_DiagonalAlways ==
    (pc = "done" /\ PerfectMatch) => out = Diagonal(n_events)

\* C8 amended: with n_events == n_kmers and a perfect-match scorer the
\* alignment is the diagonal provided every diagonal cell is inside its band
\* and a step costs less than a skip followed by a trim
\* (lp_step > lp_skip + lp_trim).
C8_DiagonalWhenInBand ==
    (pc = "done" /\ PerfectMatch /\ DiagonalInBand(hmm_result)
        /\ lp.lp_step > lp.lp_skip + lp.lp_trim)
        => out = Diagonal(n_events)

\* a perfect-match alignment of two or more events whose diagonal was in band
C8_Witness ==
    /\ pc = "done"
    /\ PerfectMatch
    /\ n_events >= 2
    /\ DiagonalInBand(hmm_result)
    /\ lp.lp_step > lp.lp_skip + lp.lp_trim
    /\ ~FullCoverage(hmm_result)
    /\ out = Diagonal(n_events)

\* the move the placement rule prescribes for band i, read from the buffers
C9_Right(i) ==
    LET ll == hmm_result.band_scores[(i - 1) * hmm_result.bandwidth]
        ur == hmm_result.band_scores[(i - 1) * hmm_result.bandwidth
                                        + hmm_result.bandwidth - 1]
        both == ll = NegInf /\ ur = NegInf
    IN  \/ both /\ i % 2 = 1
        \/ ~both /\ FLt(ll, ur)

C9_Placed ==
    /\ BandsSet >= 2 =>
          LET half == hmm_result.bandwidth \div 2
          IN  /\ hmm_result.band_origins[0] = [event_idx |-> half - 1, kmer_idx |-> -1 - half]
              /\ hmm_result.band_origins[1] = [event_idx |-> half, kmer_idx |-> -1 - half]
    /\ \A i \in 2 .. (BandsSet - 1) :
          LET prev == hmm_result.band_origins[i - 1]
          IN  hmm_result.band_origins[i] =
                  IF C9_Right(i)
                  THEN [event_idx |-> prev.event_idx, kmer_idx |-> prev.kmer_idx + 1]
                  ELSE [event_idx |-> prev.event_idx + 1, kmer_idx |-> prev.kmer_idx]

C9_Kept ==
    \A i \in 0 .. (BandsSet - 1) :
        hmm_result'.band_origins[i] = hmm_result.band_origins[i]

\* C9: band 0 and band 1 are fixed by initialize(); every later origin is
\* the previous one moved right (both boundary scores -infinity and the band
\* odd, or not both -infinity and ll < ur) or else down, one coordinate by
\* exactly 1; and an origin once set never changes.
C9_BandOrigins == [](C9_Placed) /\ [][C9_Kept]_vars

\* bands were placed by the score rule to the right and also moved down
C9_Witness ==
    /\ pc = "done"
    /\ \E i \in 2 .. (hmm_result.n_bands - 1) :
          /\ hmm_result.band_scores[i * hmm_result.bandwidth - 1] # NegInf
          /\ C9_Right(i)
    /\ \E i \in 2 .. (hmm_result.n_bands - 1) : ~C9_Right(i)

\* C10: every cell the fill loop hands to set3 has an offset inside the
\* band and an event and k-mer inside the sequences; set3 never writes a
\* cell of the k-mer -1 column or the start cell, writes no cell twice, and
\* the fill counter stays within bandwidth * (n_bands - 2).
C10_FillInRange ==
    /\ (pc = "fill" /\ offset < max_offset) =>
          /\ 0 <= offset /\ offset < hmm_result.bandwidth
          /\ get_event_at_band_offset(hmm_result, band_idx, offset) \in 0 .. (n_events - 1)
          /\ get_kmer_at_band_offset(hmm_result, band_idx, offset) \in 0 .. (n_kmers - 1)
    /\ hmm_result.n_fills = Cardinality(filled)
    /\ pc # "start" => hmm_result.n_fills <= hmm_result.bandwidth * (hmm_result.n_bands - 2)
    /\ \A idx \in filled :
          LET b == idx \div hmm_result.bandwidth
              o == idx % hmm_result.bandwidth
          IN  /\ b >= 2
              /\ get_kmer_at_band_offset(hmm_result, b, o) >= 0
              /\ get_event_at_band_offset(hmm_result, b, o) >= 0

\* the fill is about to write the last cell of a fully filled 2 x 2 grid
C10_Witness ==
    /\ pc = "fill" /\ offset < max_offset
    /\ n_events >= 2 /\ n_kmers >= 2
    /\ hmm_result.n_fills = n_events * n_kmers - 1

====
